---- MODULE Spec2Model ----
(***************************************************************************)
(* A model of main.py, the backend of the RateMyProf UW Tacoma assistant:  *)
(* the /professor endpoint (get_professor) with its helpers                *)
(* search_professor, fetch_reviews, is_abusive, summarize_reviews,         *)
(* _fallback_summary and _cache_key, and the module-level _cache.          *)
(*                                                                         *)
(* Text is a sequence of one-character strings, so that strip, lower,      *)
(* upper, split and re.sub are computed character by character.  A JSON    *)
(* value of an upstream response is a record [k, n, s]: k is its kind      *)
(* ("null" also stands for an absent key, which the code reads with .get   *)
(* or fails on alike), n its number, s its text.  Ratings and percentages  *)
(* are counted in hundredths, so that rounding to one decimal is not the   *)
(* identity.                                                               *)
(***************************************************************************)
EXTENDS Integers, Sequences, FiniteSets, TLC

VARIABLES
    anthropic_client,  \* main.py:23, TRUE iff ANTHROPIC_API_KEY is set
    _cache,            \* main.py:237, key -> ProfessorData
    loop,              \* the task the asyncio event loop is running, or NoTask
    task,              \* the get_professor coroutine of each request
    served,            \* history: the first record returned for each name
    fn, arg, res       \* one application of a helper: which, its input, its result

vars == <<anthropic_client, _cache, loop, task, served, fn, arg, res>>

-----------------------------------------------------------------------------
(* Bounds of the model.                                                    *)

MaxKeyLen == 4      \* length of the names given to _cache_key
MaxQueryLen == 3    \* length of the names given to search_professor
MaxCands == 2       \* candidates in one search response
MaxReviews == 2     \* reviews in one fetch response
MaxReplyLen == 4    \* length of the classifier's reply
MaxSummaryLen == 2  \* length of the generator's reply

-----------------------------------------------------------------------------
(* Python's str methods.                                                   *)

IsSpace(c) == c \in {" ", "\t"}

LowerChar(c) ==
    CASE c = "A" -> "a" [] c = "B" -> "b" [] c = "Y" -> "y"
      [] c = "E" -> "e" [] c = "S" -> "s" [] c = "N" -> "n"
      [] c = "O" -> "o" [] OTHER -> c

UpperChar(c) ==
    CASE c = "a" -> "A" [] c = "b" -> "B" [] c = "y" -> "Y"
      [] c = "e" -> "E" [] c = "s" -> "S" [] c = "n" -> "N"
      [] c = "o" -> "O" [] OTHER -> c

Lower(s) == [i \in 1..Len(s) |-> LowerChar(s[i])]

Upper(s) == [i \in 1..Len(s) |-> UpperChar(s[i])]

SetMin(S) == CHOOSE x \in S : \A y \in S : x <= y

SetMax(S) == CHOOSE x \in S : \A y \in S : y <= x

\* str.strip(): without its leading and trailing whitespace
Strip(s) ==
    LET ink == {i \in 1..Len(s) : ~IsSpace(s[i])}
    IN  IF ink = {} THEN <<>> ELSE SubSeq(s, SetMin(ink), SetMax(ink))

\* str.split(): the maximal runs of non-whitespace, in order
RECURSIVE SplitFrom(_, _, _, _)
SplitFrom(s, i, word, acc) ==
    IF i > Len(s)
    THEN IF word = <<>> THEN acc ELSE Append(acc, word)
    ELSE IF IsSpace(s[i])
         THEN SplitFrom(s, i + 1, <<>>, IF word = <<>> THEN acc ELSE Append(acc, word))
         ELSE SplitFrom(s, i + 1, Append(word, s[i]), acc)

Split(s) == SplitFrom(s, 1, <<>>, <<>>)

\* re.sub(r"\s+", " ", s): each maximal run of whitespace becomes one space
RECURSIVE CollapseFrom(_, _, _)
CollapseFrom(s, i, acc) ==
    IF i > Len(s) THEN acc
    ELSE IF ~IsSpace(s[i]) THEN CollapseFrom(s, i + 1, Append(acc, s[i]))
         ELSE IF i > 1 /\ IsSpace(s[i - 1]) THEN CollapseFrom(s, i + 1, acc)
              ELSE CollapseFrom(s, i + 1, Append(acc, " "))

Collapse(s) == CollapseFrom(s, 1, <<>>)

InSeq(x, seq) == \E i \in 1..Len(seq) : seq[i] = x

\* The sequences over S of length n, and of length at most n
RECURSIVE SeqsOfLen(_, _)
SeqsOfLen(S, n) ==
    IF n = 0 THEN {<<>>}
    ELSE {Append(s, x) : s \in SeqsOfLen(S, n - 1), x \in S}

SeqsUpTo(S, n) == UNION {SeqsOfLen(S, k) : k \in 0..n}

StringsUpTo(chars, n) == SeqsUpTo(chars, n)

-----------------------------------------------------------------------------
(* JSON values of the upstream responses.                                  *)

JNull == [k |-> "null", n |-> 0, s |-> <<>>]

JNum(x) == [k |-> "num", n |-> x, s |-> <<>>]

JStr(t) == [k |-> "str", n |-> 0, s |-> t]

\* Python's truth value of a JSON value: None, 0 and "" are false
Truthy(v) ==
    CASE v.k = "null" -> FALSE
      [] v.k = "num" -> v.n # 0
      [] OTHER -> v.s # <<>>

-----------------------------------------------------------------------------
(* _cache_key, main.py:239-240.                                            *)

CacheKeyNoLower(name) == Collapse(Strip(name))

CacheKeyNoCollapse(name) == Lower(Strip(name))

_cache_key(name) == Collapse(Lower(Strip(name)))

-----------------------------------------------------------------------------
(* search_professor, main.py:75-123.  resp is the outcome of the POST:     *)
(* ok is FALSE when the request, raise_for_status or the path into the     *)
(* JSON body raised (main.py:98-104), else edges is the list read at       *)
(* main.py:101.  The result is None, a node, or an exception that leaves   *)
(* the function (kind "raise").                                            *)

Cand(id, first, last, rating, difficulty, wta, num, dept) ==
    [id |-> id, firstName |-> first, lastName |-> last, rating |-> rating,
     difficulty |-> difficulty, wouldTakeAgainPercent |-> wta,
     numRatings |-> num, department |-> dept]

NoCand == Cand(0, JNull, JNull, JNull, JNull, JNull, JNull, JNull)

ReturnNone == [kind |-> "none", prof |-> NoCand]

ReturnProf(p) == [kind |-> "prof", prof |-> p]

Raised == [kind |-> "raise", prof |-> NoCand]

\* main.py:110, the list comprehension over the edges
RatedAll(edges) == edges

Rated(edges) == SelectSeq(edges, LAMBDA e : e.numRatings.n > 0)

\* main.py:116-123, the loop over the rated candidates
RECURSIVE MatchFrom(_, _, _)
MatchFrom(rated, name_parts, i) ==
    IF i > Len(rated) THEN ReturnNone
    ELSE LET p == rated[i]
         IN  IF p.firstName.k # "str" \/ p.lastName.k # "str" THEN Raised
             ELSE LET first == Strip(Lower(p.firstName.s))
                      last == Strip(Lower(p.lastName.s))
                  IN  IF InSeq(last, name_parts) /\ InSeq(first, name_parts)
                      THEN ReturnProf(p)
                      ELSE MatchFrom(rated, name_parts, i + 1)

search_professor(name, resp) ==
    IF ~resp.ok THEN ReturnNone
    ELSE IF resp.edges = <<>> THEN ReturnNone
    ELSE IF \E i \in 1..Len(resp.edges) : resp.edges[i].numRatings.k # "num" THEN Raised
    ELSE IF Rated(resp.edges) = <<>> THEN ReturnNone
    ELSE MatchFrom(Rated(resp.edges), Split(Lower(name)), 1)

AfterSearchGuess(p) == IF p.kind = "raise" THEN "server_error" ELSE "found"

\* main.py:256-258 of get_professor: what follows the search
AfterSearch(p) ==
    CASE p.kind = "raise" -> "server_error"
      [] p.kind = "none" -> "not_found"
      [] OTHER -> "found"

-----------------------------------------------------------------------------
(* fetch_reviews, main.py:126-170.  resp is the outcome of the POST: ok is *)
(* FALSE when the request or the path into the body raised                 *)
(* (main.py:147-153), else edges is the list of nodes read at main.py:150. *)

DateLen == 10

Node(comment, quality, class, date) ==
    [comment |-> comment, qualityRating |-> quality, class |-> class, date |-> date]

Review(rating, text, course, date) ==
    [rating |-> rating, text |-> text, course |-> course, date |-> date]

NoReview == Review(0, <<>>, JNull, JNull)

IsDigit(c) == c \in {"0", "1", "2", "3", "4", "5", "6", "7", "8", "9"}

DigitValue(c) ==
    CASE c = "0" -> 0 [] c = "1" -> 1 [] c = "2" -> 2 [] c = "3" -> 3
      [] c = "4" -> 4 [] c = "5" -> 5 [] c = "6" -> 6 [] c = "7" -> 7
      [] c = "8" -> 8 [] OTHER -> 9

RECURSIVE DecimalValue(_)
DecimalValue(s) ==
    IF s = <<>> THEN 0
    ELSE 10 * DecimalValue(SubSeq(s, 1, Len(s) - 1)) + DigitValue(s[Len(s)])

\* float(x) of a str: the texts drawn here are digits and letters, and
\* float() takes a digit string, surrounding whitespace allowed
FloatParses(s) ==
    /\ Strip(s) # <<>>
    /\ \A i \in 1..Len(Strip(s)) : IsDigit(Strip(s)[i])

\* main.py:164, float(node.get("qualityRating") or 0), in hundredths
FloatRaises(v) == v.k = "str" /\ v.s # <<>> /\ ~FloatParses(v.s)

FloatOrZero(v) ==
    CASE v.k = "num" -> v.n
      [] v.k = "str" /\ v.s # <<>> -> 100 * DecimalValue(Strip(v.s))
      [] OTHER -> 0

Dropped == [kind |-> "none", review |-> NoReview]

Kept(r) == [kind |-> "review", review |-> r]

NodeRaised == [kind |-> "raise", review |-> NoReview]

\* main.py:158, (node.get("comment") or "").strip(): a number has no strip
CommentRaises(v) == v.k = "num" /\ v.n # 0

CommentNoStrip(v) == IF v.k = "str" THEN v.s ELSE <<>>

CommentOf(v) == IF v.k = "str" THEN Strip(v.s) ELSE <<>>

\* main.py:161-162, raw_date[:10] if raw_date else None: a number has no slice
DateRaises(v) == v.k = "num" /\ v.n # 0

ShortDate(v) ==
    IF Truthy(v)
    THEN JStr(SubSeq(v.s, 1, IF Len(v.s) < DateLen THEN Len(v.s) ELSE DateLen))
    ELSE JNull

\* main.py:166, node.get("class") or None
CourseOf(v) == IF Truthy(v) THEN v ELSE JNull

\* main.py:157-168, the body of the loop over the edges
sanitize(node) ==
    IF CommentRaises(node.comment) THEN NodeRaised
    ELSE IF CommentOf(node.comment) = <<>> THEN Dropped
    ELSE IF DateRaises(node.date) \/ FloatRaises(node.qualityRating) THEN NodeRaised
    ELSE Kept(Review(FloatOrZero(node.qualityRating), CommentOf(node.comment),
                     CourseOf(node.class), ShortDate(node.date)))

RECURSIVE SanitizeFrom(_, _, _)
SanitizeFrom(edges, i, reviews) ==
    IF i > Len(edges) THEN [kind |-> "ok", reviews |-> reviews]
    ELSE LET s == sanitize(edges[i])
         IN  CASE s.kind = "raise" -> [kind |-> "raise", reviews |-> <<>>]
               [] s.kind = "none" -> SanitizeFrom(edges, i + 1, reviews)
               [] OTHER -> SanitizeFrom(edges, i + 1, Append(reviews, s.review))

FetchReviewsRaise(resp) ==
    IF ~resp.ok THEN [kind |-> "raise", reviews |-> <<>>]
    ELSE SanitizeFrom(resp.edges, 1, <<>>)

fetch_reviews(resp) ==
    IF ~resp.ok THEN [kind |-> "ok", reviews |-> <<>>]
    ELSE SanitizeFrom(resp.edges, 1, <<>>)

-----------------------------------------------------------------------------
(* is_abusive, main.py:187-203, and summarize_reviews with                 *)
(* _fallback_summary, main.py:206-233.  out is the outcome of              *)
(* messages.create: ok is FALSE when the call or the read of               *)
(* response.content[0].text raised, else text is that text.  Both read     *)
(* the module's anthropic_client.  The text sent is text[:512]             *)
(* (main.py:195); no review drawn here is that long.                       *)

Failed == [ok |-> FALSE, text |-> <<>>]

Replied(t) == [ok |-> TRUE, text |-> t]

IsAbusiveNoStrip(text, out) ==
    anthropic_client /\ out.ok /\ Upper(out.text) = <<"Y", "E", "S">>

is_abusive(text, out) ==
    IF ~anthropic_client THEN FALSE
    ELSE out.ok /\ Upper(Strip(out.text)) = <<"Y", "E", "S">>

DigitChar(d) ==
    CASE d = 0 -> "0" [] d = 1 -> "1" [] d = 2 -> "2" [] d = 3 -> "3"
      [] d = 4 -> "4" [] d = 5 -> "5" [] d = 6 -> "6" [] d = 7 -> "7"
      [] d = 8 -> "8" [] OTHER -> "9"

\* str(count) of the f-string at main.py:231
RECURSIVE Str(_)
Str(n) == IF n < 10 THEN <<DigitChar(n)>> ELSE Str(n \div 10) \o <<DigitChar(n % 10)>>

\* The literals of main.py:228-232 are kept as fragments of text; the
\* f-string's plural is the fragment "s", or nothing
NoReviewsText == <<"No reviews available to summarize.">>

FallbackPlural(review_texts) ==
    <<"Based on ">> \o Str(Len(review_texts)) \o <<" student review", "s">>
    \o <<" from Rate My Professor. ", "See individual reviews below for details.">>

_fallback_summary(review_texts) ==
    IF review_texts = <<>> THEN NoReviewsText
    ELSE LET count == Len(review_texts)
         IN  <<"Based on ">> \o Str(count) \o <<" student review">>
             \o (IF count # 1 THEN <<"s">> ELSE <<>>)
             \o <<" from Rate My Professor. ", "See individual reviews below for details.">>

summarize_reviews(review_texts, out) ==
    IF ~anthropic_client \/ review_texts = <<>> THEN _fallback_summary(review_texts)
    ELSE IF out.ok THEN Strip(out.text)
    ELSE _fallback_summary(review_texts)

\* main.py:266, the list comprehension: outs[i] is the outcome of the
\* classifier call made for raw_reviews[i]
RECURSIVE FilterFrom(_, _, _, _)
FilterFrom(raw_reviews, outs, i, kept) ==
    IF i > Len(raw_reviews) THEN kept
    ELSE FilterFrom(raw_reviews, outs, i + 1,
                    IF is_abusive(raw_reviews[i].text, outs[i]) THEN kept
                    ELSE Append(kept, raw_reviews[i]))

CleanReviewsReversed(raw_reviews, outs) ==
    LET kept == FilterFrom(raw_reviews, outs, 1, <<>>)
    IN  [i \in 1..Len(kept) |-> kept[Len(kept) + 1 - i]]

clean_reviews(raw_reviews, outs) == FilterFrom(raw_reviews, outs, 1, <<>>)

Texts(reviews) == [i \in 1..Len(reviews) |-> reviews[i].text]

-----------------------------------------------------------------------------
(* ProfessorData(...), main.py:272-281.  round(x, 1) of a value in         *)
(* hundredths is the nearest multiple of 10; the values drawn are never    *)
(* half way between two, where Python's result depends on the float.       *)

Round1(h) == IF h >= 0 THEN ((h + 5) \div 10) * 10 ELSE 0 - (((0 - h) + 5) \div 10) * 10

NoRecord ==
    [name |-> <<>>, rating |-> 0, difficulty |-> JNull, wouldTakeAgain |-> JNull,
     numRatings |-> JNull, department |-> JNull, summary |-> <<>>, reviews |-> <<>>]

\* main.py:276
WouldTakeAgain(prof) ==
    IF Truthy(prof.wouldTakeAgainPercent) /\ prof.wouldTakeAgainPercent.n >= 0
    THEN JNum(Round1(prof.wouldTakeAgainPercent.n)) ELSE JNull

\* main.py:275
Difficulty(prof) ==
    IF Truthy(prof.difficulty) THEN JNum(Round1(prof.difficulty.n)) ELSE JNull

\* float(prof["rating"]) raises on None (main.py:274)
ProfessorData(prof, summary, reviews) ==
    IF prof.rating.k # "num" THEN [kind |-> "raise", rec |-> NoRecord]
    ELSE [kind |-> "ok",
          rec |-> [name |-> prof.firstName.s \o <<" ">> \o prof.lastName.s,
                   rating |-> Round1(prof.rating.n),
                   difficulty |-> Difficulty(prof),
                   wouldTakeAgain |-> WouldTakeAgain(prof),
                   numRatings |-> prof.numRatings,
                   department |-> prof.department,
                   summary |-> summary,
                   reviews |-> reviews]]

-----------------------------------------------------------------------------
(* The requests and what the upstream services may answer them.            *)

Tasks == {"r1", "r2"}

NoTask == "none"

HasNever(d, k) == FALSE

GetNone(d, k) == NoRecord

PutOnly(d, k, v) == {[key |-> k, value |-> v]}

\* A dict is the set of its items, one for each key
Has(d, k) == \E e \in d : e.key = k

Get(d, k) == (CHOOSE e \in d : e.key = k).value

Put(d, k, v) == {e \in d : e.key # k} \cup {[key |-> k, value |-> v]}

\* The names of the requests: empty, blank, and three spellings of two keys
RequestNames ==
    {<<>>, <<" ">>, <<"a", " ", "b">>, <<"A", " ", " ", "b">>, <<"b", " ", "a">>}

GoodCand == Cand(1, JStr(<<"a">>), JStr(<<"b">>), JNum(417), JNum(314), JNum(8333),
                 JNum(12), JStr(<<"c", "s">>))

\* A rated candidate, an unrated one, one without numRatings, one without rating
PipelineCands ==
    {GoodCand,
     [GoodCand EXCEPT !.numRatings = JNum(0)],
     [GoodCand EXCEPT !.numRatings = JNull],
     [GoodCand EXCEPT !.rating = JNull, !.wouldTakeAgainPercent = JNum(-100)]}

SearchFailed == [ok |-> FALSE, edges |-> <<>>]

PipelineSearches ==
    {SearchFailed} \cup {[ok |-> TRUE, edges |-> e] : e \in SeqsUpTo(PipelineCands, MaxCands)}

LongDate == <<"2", "0", "2", "4", "-", "0", "5", "-", "1", "7", " ", "1", "0">>

\* Two reviews with a comment, one with a blank comment, one whose
\* qualityRating is not a number
PipelineNodes ==
    {Node(JStr(<<"g">>), JNum(500), JStr(<<"c">>), JStr(LongDate)),
     Node(JStr(<<" ", "h", " ">>), JNull, JNull, JNull),
     Node(JStr(<<" ">>), JNum(100), JNull, JNull),
     Node(JStr(<<"g">>), JStr(<<"x">>), JNull, JNull)}

FetchFailed == [ok |-> FALSE, edges |-> <<>>]

\* The service returns each review once
Distinct(seq) == \A i, j \in 1..Len(seq) : seq[i] = seq[j] => i = j

PipelineFetches ==
    {FetchFailed}
    \cup {[ok |-> TRUE, edges |-> e] :
            e \in {x \in SeqsUpTo(PipelineNodes, MaxReviews) : Distinct(x)}}

PipelineVerdicts == {Failed, Replied(<<"Y", "E", "S">>), Replied(<<"N", "O">>)}

PipelineSummaries == {Failed, Replied(<<" ", "o", "k">>)}

-----------------------------------------------------------------------------
(* One application of a helper to an input drawn from a bounded set:       *)
(* SpecFn.  fn names the helper, arg is its input and res its result.      *)

KeyNames == StringsUpTo({"a", "A", " ", "\t"}, MaxKeyLen)

QueryNames == StringsUpTo({"a", "A", "b", " "}, MaxQueryLen)

MatchCand(id, first, last, num) ==
    Cand(id, first, last, JNum(417), JNull, JNull, num, JNull)

MatchCands ==
    {MatchCand(1, JStr(<<"a">>), JStr(<<"b">>), JNum(2)),
     MatchCand(2, JStr(<<"A", " ">>), JStr(<<" ", "b">>), JNum(2)),
     MatchCand(3, JStr(<<"b">>), JStr(<<"b">>), JNum(2)),
     MatchCand(4, JStr(<<"a">>), JStr(<<"b">>), JNum(0)),
     MatchCand(5, JStr(<<"a">>), JStr(<<"b">>), JNull),
     MatchCand(6, JNull, JStr(<<"b">>), JNum(2))}

MatchSearches ==
    {SearchFailed} \cup {[ok |-> TRUE, edges |-> e] : e \in SeqsUpTo(MatchCands, MaxCands)}

RawNodes ==
    {Node(c, q, k, d) :
        c \in {JNull, JNum(7), JStr(<<>>), JStr(<<" ">>), JStr(<<"g">>), JStr(<<" ", "g", " ">>)},
        q \in {JNull, JNum(0), JNum(450), JStr(<<>>), JStr(<<"4">>), JStr(<<"x">>)},
        k \in {JNull, JStr(<<>>), JStr(<<"c">>)},
        d \in {JNull, JStr(<<>>), JStr(<<"2", "0">>), JStr(LongDate), JNum(5)}}

Replies == {Failed} \cup {Replied(t) : t \in StringsUpTo({"Y", "y", "E", "S", " "}, MaxReplyLen)}

Summaries == {Failed} \cup {Replied(t) : t \in StringsUpTo({"o", " "}, MaxSummaryLen)}

ReviewOf(t) == Review(500, t, JNull, JNull)

ReviewLists == SeqsUpTo({ReviewOf(<<"g">>), ReviewOf(<<"h">>)}, MaxReviews)

AssembleCands ==
    {Cand(1, JStr(<<"a">>), JStr(<<"b">>), r, d, w, JNum(12), JStr(<<"c", "s">>)) :
        r \in {JNull, JNum(417)},
        d \in {JNull, JNum(0), JNum(314)},
        w \in {JNull, JNum(-100), JNum(0), JNum(8333)}}

\* Reviews with a comment, without one, with an empty or blank one, and one
\* whose qualityRating is not a number
SanitizeNodes ==
    {Node(JStr(<<"g">>), JNum(500), JStr(<<"c">>), JStr(LongDate)),
     Node(JStr(<<" ", "h", " ">>), JNull, JNull, JNull),
     Node(JNull, JNum(100), JNull, JNull),
     Node(JStr(<<>>), JNum(200), JNull, JNull),
     Node(JStr(<<" ", "\t">>), JNum(300), JNull, JNull),
     Node(JStr(<<"g">>), JStr(<<"x">>), JNull, JNull)}

FetchResponses ==
    {FetchFailed} \cup {[ok |-> TRUE, edges |-> e] : e \in SeqsUpTo(SanitizeNodes, MaxReviews)}

\* A matched candidate, and one without a rating
ReviewCands == {GoodCand, [GoodCand EXCEPT !.rating = JNull]}

IdleTask ==
    [pc |-> "idle", name |-> <<>>, key |-> <<>>, prior |-> <<>>, prof |-> NoCand,
     raw_reviews |-> <<>>, clean_reviews |-> <<>>, outcome |-> "none",
     result |-> NoRecord, calls |-> <<>>]

PipelineInit ==
    /\ anthropic_client \in BOOLEAN
    /\ _cache = {}
    /\ loop = NoTask
    /\ task = [r \in Tasks |-> IdleTask]
    /\ served = {}

pipelineVars == <<anthropic_client, _cache, loop, task, served>>

fnVars == <<fn, arg, res>>

\* arg and res hold a field for each helper, so that their values compare
NoArg ==
    [name |-> <<>>, resp |-> SearchFailed, node |-> Node(JNull, JNull, JNull, JNull),
     raw |-> <<>>, outs |-> <<>>, out |-> Failed, prof |-> NoCand,
     fetch |-> FetchFailed]

NoRes ==
    [key |-> <<>>, found |-> ReturnNone, node |-> Dropped, kept |-> <<>>,
     flag |-> FALSE, summary |-> <<>>, data |-> [kind |-> "raise", rec |-> NoRecord],
     fetched |-> [kind |-> "ok", reviews |-> <<>>], texts |-> <<>>, calls |-> <<>>]

InitFn == PipelineInit /\ fn = "none" /\ arg = NoArg /\ res = NoRes

Apply_cache_key ==
    /\ fn = "none"
    /\ \E name \in KeyNames :
          /\ fn' = "_cache_key"
          /\ arg' = [NoArg EXCEPT !.name = name]
          /\ res' = [NoRes EXCEPT !.key = _cache_key(name)]
    /\ UNCHANGED pipelineVars

Apply_search_professor ==
    /\ fn = "none"
    /\ \E name \in QueryNames, resp \in MatchSearches :
          /\ fn' = "search_professor"
          /\ arg' = [NoArg EXCEPT !.name = name, !.resp = resp]
          /\ res' = [NoRes EXCEPT !.found = search_professor(name, resp)]
    /\ UNCHANGED pipelineVars

Apply_sanitize ==
    /\ fn = "none"
    /\ \E node \in RawNodes :
          /\ fn' = "sanitize"
          /\ arg' = [NoArg EXCEPT !.node = node]
          /\ res' = [NoRes EXCEPT !.node = sanitize(node)]
    /\ UNCHANGED pipelineVars

Apply_clean_reviews ==
    /\ fn = "none"
    /\ \E raw \in ReviewLists :
          \E outs \in SeqsOfLen(PipelineVerdicts, Len(raw)) :
              /\ fn' = "clean_reviews"
              /\ arg' = [NoArg EXCEPT !.raw = raw, !.outs = outs]
              /\ res' = [NoRes EXCEPT !.kept = clean_reviews(raw, outs)]
    /\ UNCHANGED pipelineVars

Apply_is_abusive ==
    /\ fn = "none"
    /\ \E out \in Replies :
          /\ fn' = "is_abusive"
          /\ arg' = [NoArg EXCEPT !.out = out]
          /\ res' = [NoRes EXCEPT !.flag = is_abusive(<<"g">>, out)]
    /\ UNCHANGED pipelineVars

Apply_summarize_reviews ==
    /\ fn = "none"
    /\ \E raw \in ReviewLists, out \in Summaries :
          /\ fn' = "summarize_reviews"
          /\ arg' = [NoArg EXCEPT !.raw = raw, !.out = out]
          /\ res' = [NoRes EXCEPT !.summary = summarize_reviews(Texts(raw), out)]
    /\ UNCHANGED pipelineVars

Apply_ProfessorData ==
    /\ fn = "none"
    /\ \E prof \in AssembleCands :
          /\ fn' = "ProfessorData"
          /\ arg' = [NoArg EXCEPT !.prof = prof]
          /\ res' = [NoRes EXCEPT !.data = ProfessorData(prof, NoReviewsText, <<>>)]
    /\ UNCHANGED pipelineVars

\* is_abusive calls the classifier only when the client is configured
ModerationCalls(raw_reviews) ==
    IF anthropic_client THEN [i \in 1..Len(raw_reviews) |-> "moderate"] ELSE <<>>

\* summarize_reviews calls the generator only when the client is
\* configured and there is a text
GenerationCalls(review_texts) ==
    IF anthropic_client /\ review_texts # <<>> THEN <<"generate">> ELSE <<>>

\* main.py:263-281, get_professor after the match: the reviews are
\* fetched, filtered and summarized, and the record is built
Apply_get_professor ==
    /\ fn = "none"
    /\ \E prof \in ReviewCands, resp \in FetchResponses, out \in PipelineSummaries :
          LET f == fetch_reviews(resp)
          IN  \E outs \in SeqsOfLen(PipelineVerdicts, Len(f.reviews)) :
                LET clean == clean_reviews(f.reviews, outs)
                    texts == Texts(clean)
                    summary == summarize_reviews(texts, out)
                IN  /\ fn' = "get_professor"
                    /\ arg' = [NoArg EXCEPT !.prof = prof, !.fetch = resp,
                                             !.outs = outs, !.out = out]
                    /\ res' = IF f.kind = "raise"
                              THEN [NoRes EXCEPT !.fetched = f, !.calls = <<"fetch">>]
                              ELSE [NoRes EXCEPT
                                      !.fetched = f, !.kept = clean, !.texts = texts,
                                      !.summary = summary,
                                      !.data = ProfessorData(prof, summary, clean),
                                      !.calls = <<"fetch">> \o ModerationCalls(f.reviews)
                                                \o GenerationCalls(texts)]
    /\ UNCHANGED pipelineVars

NextFn ==
    \/ Apply_get_professor
    \/ Apply_cache_key
    \/ Apply_search_professor
    \/ Apply_sanitize
    \/ Apply_clean_reviews
    \/ Apply_is_abusive
    \/ Apply_summarize_reviews
    \/ Apply_ProfessorData

SpecFn == InitFn /\ [][NextFn]_vars

-----------------------------------------------------------------------------
(* get_professor, main.py:245-284, one coroutine for each request.  It is  *)
(* an async def that never awaits: requests.post and messages.create are   *)
(* blocking calls, so from its first line to its return or raise the       *)
(* coroutine keeps the event loop (loop), and no other coroutine runs.     *)
(* pc is the call the coroutine is in: "search" (main.py:256), "fetch"     *)
(* (main.py:263), "moderate" (main.py:266), "summarize" (main.py:269).     *)
(* calls lists the calls it has made to the upstream services.  outcome is *)
(* "record" (200), "client_error" (400), "not_found" (404) or              *)
(* "server_error" (500, an exception that left the handler).               *)

\* The words of a name in lower case: what two spellings of a name share
Words(name) == Split(Lower(name))

\* served remembers the first record returned for a name
Note(history, name, rec) ==
    IF Has(history, Words(name)) THEN history ELSE Put(history, Words(name), rec)

\* main.py:247
NameEmpty(name) == name = <<>>

NameMissing(name) == name = <<>> \/ Strip(name) = <<>>

Step(r, t) == task' = [task EXCEPT ![r] = t]

\* The coroutine returns or raises: its locals are gone, the response stays
Finish(r, t, outcome) ==
    task' = [task EXCEPT ![r] = [t EXCEPT !.pc = "done", !.outcome = outcome,
                                           !.prof = NoCand, !.raw_reviews = <<>>,
                                           !.clean_reviews = <<>>]]

\* A client sends GET /professor?name=...
Arrive(r) ==
    /\ task[r].pc = "idle"
    /\ \E name \in RequestNames :
          Step(r, [IdleTask EXCEPT !.pc = "queued", !.name = name])
    /\ UNCHANGED <<anthropic_client, _cache, loop, served, fnVars>>

\* main.py:247-253: the event loop starts the coroutine, which validates
\* the name and looks the key up
Begin(r) ==
    /\ task[r].pc = "queued"
    /\ loop = NoTask
    /\ LET name == task[r].name
           key == _cache_key(name)
           t == [task[r] EXCEPT
                   !.prior = IF Has(served, Words(name))
                             THEN <<Get(served, Words(name))>> ELSE <<>>]
       IN  IF NameMissing(name)
           THEN /\ Finish(r, t, "client_error")
                /\ UNCHANGED <<loop, served>>
           ELSE IF Has(_cache, key)
           THEN /\ Finish(r, [t EXCEPT !.key = key, !.result = Get(_cache, key)], "record")
                /\ served' = Note(served, name, Get(_cache, key))
                /\ UNCHANGED loop
           ELSE /\ Step(r, [t EXCEPT !.pc = "search", !.key = key])
                /\ loop' = r
                /\ UNCHANGED served
    /\ UNCHANGED <<anthropic_client, _cache, fnVars>>

\* main.py:256-258
Search(r) ==
    /\ task[r].pc = "search"
    /\ loop = r
    /\ \E resp \in PipelineSearches :
          LET p == search_professor(task[r].name, resp)
              t == [task[r] EXCEPT !.calls = Append(@, "search")]
          IN  CASE AfterSearch(p) = "server_error" ->
                     /\ Finish(r, t, "server_error")
                     /\ loop' = NoTask
                [] AfterSearch(p) = "not_found" ->
                     /\ Finish(r, t, "not_found")
                     /\ loop' = NoTask
                [] OTHER ->
                     /\ Step(r, [t EXCEPT !.pc = "fetch", !.prof = p.prof])
                     /\ UNCHANGED loop
    /\ UNCHANGED <<anthropic_client, _cache, served, fnVars>>

\* main.py:263
Fetch(r) ==
    /\ task[r].pc = "fetch"
    /\ loop = r
    /\ \E resp \in PipelineFetches :
          LET f == fetch_reviews(resp)
              t == [task[r] EXCEPT !.calls = Append(@, "fetch")]
          IN  IF f.kind = "raise"
              THEN /\ Finish(r, t, "server_error")
                   /\ loop' = NoTask
              ELSE /\ Step(r, [t EXCEPT !.pc = "moderate", !.raw_reviews = f.reviews])
                   /\ UNCHANGED loop
    /\ UNCHANGED <<anthropic_client, _cache, served, fnVars>>

\* main.py:266
Moderate(r) ==
    /\ task[r].pc = "moderate"
    /\ loop = r
    /\ \E outs \in SeqsOfLen(PipelineVerdicts, Len(task[r].raw_reviews)) :
          Step(r, [task[r] EXCEPT
                     !.pc = "summarize",
                     !.clean_reviews = clean_reviews(task[r].raw_reviews, outs),
                     !.calls = @ \o ModerationCalls(task[r].raw_reviews)])
    /\ UNCHANGED <<anthropic_client, _cache, loop, served, fnVars>>

\* main.py:269-284
Summarize(r) ==
    /\ task[r].pc = "summarize"
    /\ loop = r
    /\ \E out \in PipelineSummaries :
          LET texts == Texts(task[r].clean_reviews)
              summary == summarize_reviews(texts, out)
              data == ProfessorData(task[r].prof, summary, task[r].clean_reviews)
              t == [task[r] EXCEPT !.calls = @ \o GenerationCalls(texts)]
          IN  IF data.kind = "raise"
              THEN /\ Finish(r, t, "server_error")
                   /\ UNCHANGED <<_cache, served>>
              ELSE /\ Finish(r, [t EXCEPT !.result = data.rec], "record")
                   /\ _cache' = Put(_cache, task[r].key, data.rec)
                   /\ served' = Note(served, task[r].name, data.rec)
    /\ loop' = NoTask
    /\ UNCHANGED <<anthropic_client, fnVars>>

\* The response has been sent
Retire(r) ==
    /\ task[r].pc = "done"
    /\ Step(r, IdleTask)
    /\ UNCHANGED <<anthropic_client, _cache, loop, served, fnVars>>

Init == PipelineInit /\ fn = "none" /\ arg = NoArg /\ res = NoRes

Next ==
    \E r \in Tasks :
        \/ Arrive(r)
        \/ Begin(r)
        \/ Search(r)
        \/ Fetch(r)
        \/ Moderate(r)
        \/ Summarize(r)
        \/ Retire(r)

Spec == Init /\ [][Next]_vars

-----------------------------------------------------------------------------
(* Claims about the helpers, checked under SpecFn.                         *)

\* A candidate as the search service documents it: names are text and
\* numRatings is a number
WellFormed(c) == c.firstName.k = "str" /\ c.lastName.k = "str" /\ c.numRatings.k = "num"

\* w is a whole whitespace-separated token of q
IsToken(w, q) ==
    /\ w # <<>>
    /\ \A i \in 1..Len(w) : ~IsSpace(w[i])
    /\ \E i \in 1..Len(q) :
          LET j == i + Len(w) - 1
          IN  /\ j <= Len(q)
              /\ SubSeq(q, i, j) = w
              /\ (i = 1 \/ IsSpace(q[i - 1]))
              /\ (j = Len(q) \/ IsSpace(q[j + 1]))

Confident(c, query) ==
    /\ c.numRatings.n > 0
    /\ IsToken(Lower(Strip(c.firstName.s)), Lower(query))
    /\ IsToken(Lower(Strip(c.lastName.s)), Lower(query))

\* C2: for every query name and every list of well-formed candidates, the
\* matcher returns the first candidate in input order that has numRatings > 0
\* and whose trimmed lowercased first and last names are both whole tokens
\* of the lowercased query; when there is none it returns None and the
\* request ends not-found.
C2_FirstConfidentMatch ==
    (/\ fn = "search_professor"
     /\ arg.resp.ok
     /\ \A i \in 1..Len(arg.resp.edges) : WellFormed(arg.resp.edges[i]))
    => LET edges == arg.resp.edges
           hits == {i \in 1..Len(edges) : Confident(edges[i], arg.name)}
       IN  IF hits = {}
           THEN res.found = ReturnNone /\ AfterSearch(res.found) = "not_found"
           ELSE res.found = ReturnProf(edges[SetMin(hits)]) /\ AfterSearch(res.found) = "found"

\* The query "a b" against an unrated "a b" followed by a rated "A ", " b":
\* the second is returned.
C2_Witness ==
    /\ fn = "search_professor"
    /\ arg.name = <<"a", " ", "b">>
    /\ arg.resp.ok
    /\ arg.resp.edges = <<MatchCand(4, JStr(<<"a">>), JStr(<<"b">>), JNum(0)),
                          MatchCand(2, JStr(<<"A", " ">>), JStr(<<" ", "b">>), JNum(2))>>
    /\ res.found = ReturnProf(MatchCand(2, JStr(<<"A", " ">>), JStr(<<" ", "b">>), JNum(2)))

\* C4: in an assembled record wouldTakeAgain is present iff the candidate's
\* wouldTakeAgainPercent was present and >= 0, and a source value of 0
\* yields wouldTakeAgain = 0.
C4_WouldTakeAgainPresence ==
    (fn = "ProfessorData" /\ res.data.kind = "ok")
    => /\ (res.data.rec.wouldTakeAgain.k = "num")
          <=> (arg.prof.wouldTakeAgainPercent.k = "num" /\ arg.prof.wouldTakeAgainPercent.n >= 0)
       /\ arg.prof.wouldTakeAgainPercent = JNum(0) => res.data.rec.wouldTakeAgain = JNum(0)

\* C5: the summarizer returns a non-empty string whatever the texts and
\* whatever the generation service does.
C5_SummaryNonEmpty == fn = "summarize_reviews" => res.summary # <<>>

\* The numeric value of a qualityRating, 0 when it is absent or not numeric
NumericOrZero(v) ==
    CASE v.k = "num" -> v.n
      [] v.k = "str" /\ FloatParses(v.s) -> 100 * DecimalValue(Strip(v.s))
      [] OTHER -> 0

\* C7: sanitation never raises: for every raw review it yields no review or
\* a review whose rating is the numeric value of qualityRating, 0 when that
\* is absent or not numeric.
C7_SanitizeTotal ==
    fn = "sanitize"
    => /\ res.node.kind \in {"none", "review"}
       /\ res.node.kind = "review"
          => res.node.review.rating = NumericOrZero(arg.node.qualityRating)

\* The reply is YES in any letter case, with whitespace around it and nothing else
SaysYes(t) ==
    \E i \in 1..Len(t) :
        /\ i + 2 <= Len(t)
        /\ t[i] \in {"Y", "y"} /\ t[i + 1] \in {"E", "e"} /\ t[i + 2] \in {"S", "s"}
        /\ \A j \in 1..Len(t) : j \in {i, i + 1, i + 2} \/ IsSpace(t[j])

Flagged(out) == anthropic_client /\ out.ok /\ SaysYes(out.text)

\* C8: moderation never fails and is fail-open: is_abusive answers TRUE iff
\* the backend is configured, the call succeeded and its trimmed upper-cased
\* reply is YES; a review is removed iff that is so, and the others are
\* retained in order.
C8_ModerationFailOpen ==
    /\ fn = "is_abusive" => (res.flag <=> Flagged(arg.out))
    /\ fn = "clean_reviews"
       => LET kept == {i \in 1..Len(arg.raw) : ~Flagged(arg.outs[i])}
          IN  /\ Len(res.kept) = Cardinality(kept)
              /\ \A i \in kept : res.kept[Cardinality({k \in kept : k <= i})] = arg.raw[i]

\* A configured classifier replies " yES": the review is flagged.
C8_Witness ==
    /\ fn = "is_abusive"
    /\ anthropic_client
    /\ arg.out = Replied(<<" ", "y", "E", "S">>)
    /\ res.flag

FlipCase(c) == IF LowerChar(c) # c THEN LowerChar(c) ELSE UpperChar(c)

\* The names one change away from name: a letter in the other case, one
\* more whitespace character at either end, or one more in an internal run
Variants(name) ==
    {[name EXCEPT ![i] = FlipCase(name[i])] : i \in 1..Len(name)}
    \cup {<<w>> \o name : w \in {" ", "\t"}}
    \cup {name \o <<w>> : w \in {" ", "\t"}}
    \cup {SubSeq(name, 1, i) \o <<w>> \o SubSeq(name, i + 1, Len(name)) :
            i \in {j \in 1..Len(name) : IsSpace(name[j])}, w \in {" ", "\t"}}

\* C9: names that differ only in letter case, in leading or trailing
\* whitespace or in the length of internal whitespace runs have the same
\* cache key, and the key of a key is that key.
C9_KeyNormalization ==
    fn = "_cache_key"
    => /\ \A v \in Variants(arg.name) : _cache_key(v) = res.key
       /\ _cache_key(res.key) = res.key

C9_Witness ==
    /\ fn = "_cache_key"
    /\ arg.name = <<" ", "A", "\t", "a">>
    /\ res.key = <<"a", " ", "a">>

\* A comment that is absent, empty or all whitespace
NoComment(v) == v.k = "null" \/ (v.k = "str" /\ \A i \in 1..Len(v.s) : IsSpace(v.s[i]))

\* A text that is not empty and has no whitespace at either end
Trimmed(t) == t # <<>> /\ ~IsSpace(t[1]) /\ ~IsSpace(t[Len(t)])

AllTrimmed(reviews) == \A i \in 1..Len(reviews) : Trimmed(reviews[i].text)

\* C11: no review has an empty text: a raw review whose comment is absent,
\* empty or all whitespace is dropped, each one lowering the count of the
\* sanitized reviews by one, and every review fetched, retained and put in
\* the record has a non-empty trimmed text.
C11_NoEmptyText ==
    /\ fn = "sanitize"
       => /\ NoComment(arg.node.comment) => res.node = Dropped
          /\ res.node.kind = "review" => Trimmed(res.node.review.text)
    /\ (fn = "get_professor" /\ res.fetched.kind = "ok")
       => /\ arg.fetch.ok
             => Len(res.fetched.reviews)
                = Len(arg.fetch.edges)
                  - Cardinality({i \in 1..Len(arg.fetch.edges) :
                                   NoComment(arg.fetch.edges[i].comment)})
          /\ AllTrimmed(res.fetched.reviews)
          /\ AllTrimmed(res.kept)
          /\ AllTrimmed(res.data.rec.reviews)

\* A blank review followed by " h ": the record has the one review "h".
C11_Witness ==
    /\ fn = "get_professor"
    /\ arg.fetch.ok
    /\ Len(arg.fetch.edges) = 2
    /\ arg.fetch.edges[1].comment = JStr(<<" ", "\t">>)
    /\ arg.fetch.edges[2].comment = JStr(<<" ", "h", " ">>)
    /\ res.data.kind = "ok"
    /\ Texts(res.data.rec.reviews) = <<<<"h">>>>

\* How many members of S are at most i: the place of i among them
Place(S, i) == Cardinality({k \in S : k <= i})

\* C14: the reviews of a record are the fetched reviews that have a
\* non-empty trimmed comment and were not classified abusive, each once and
\* in the order the fetch returned them, and the texts given to the
\* summarizer are the texts of those reviews in that order.
C14_ReviewsInFetchOrder ==
    (fn = "get_professor" /\ arg.fetch.ok /\ res.fetched.kind = "ok" /\ res.data.kind = "ok")
    => LET edges == arg.fetch.edges
           withText == {i \in 1..Len(edges) : ~NoComment(edges[i].comment)}
           retained == {i \in withText : ~Flagged(arg.outs[Place(withText, i)])}
           reviews == res.data.rec.reviews
       IN  /\ Len(reviews) = Cardinality(retained)
           /\ \A i \in retained :
                 /\ reviews[Place(retained, i)].text = Strip(edges[i].comment.s)
                 /\ reviews[Place(retained, i)] = sanitize(edges[i]).review
           /\ Len(res.texts) = Len(reviews)
           /\ \A j \in 1..Len(reviews) : res.texts[j] = reviews[j].text

\* The fetch returned "g" then " h ", the classifier flagged neither: the
\* record has "g" then "h", and so had the summarizer.
C14_Witness ==
    /\ fn = "get_professor"
    /\ anthropic_client
    /\ arg.fetch.ok
    /\ Len(arg.fetch.edges) = 2
    /\ arg.fetch.edges[1].comment = JStr(<<"g">>)
    /\ arg.fetch.edges[2].comment = JStr(<<" ", "h", " ">>)
    /\ arg.outs = <<Replied(<<"N", "O">>), Failed>>
    /\ res.data.kind = "ok"
    /\ Texts(res.data.rec.reviews) = <<<<"g">>, <<"h">>>>
    /\ res.texts = <<<<"g">>, <<"h">>>>

\* C15: when the fetch of the reviews fails after a match, the request
\* still builds the record of the matched candidate, with no review and the
\* fixed no-reviews message, and calls neither the classifier nor the
\* generator.  The candidate has a rating (one without is C3's case).
C15_FetchFailureDegrades ==
    (fn = "get_professor" /\ ~arg.fetch.ok /\ arg.prof.rating.k = "num")
    => /\ res.fetched.kind = "ok"
       /\ res.data.kind = "ok"
       /\ res.data.rec.name = arg.prof.firstName.s \o <<" ">> \o arg.prof.lastName.s
       /\ res.data.rec.numRatings = arg.prof.numRatings
       /\ res.data.rec.reviews = <<>>
       /\ res.data.rec.summary = <<"No reviews available to summarize.">>
       /\ res.calls = <<"fetch">>

\* The fetch failed with the client configured: the record of "a b" has no
\* review and the fixed message.
C15_Witness ==
    /\ fn = "get_professor"
    /\ anthropic_client
    /\ arg.fetch = FetchFailed
    /\ arg.prof = GoodCand
    /\ res.data.kind = "ok"
    /\ res.data.rec.name = <<"a", " ", "b">>
    /\ res.data.rec.reviews = <<>>
    /\ res.calls = <<"fetch">>

\* frag occurs in text, its fragments next to each other
Contains(text, frag) ==
    \E i \in 0..(Len(text) - Len(frag)) : SubSeq(text, i + 1, i + Len(frag)) = frag

\* C12: with no text the summarizer returns the fixed no-reviews message
\* and does not call the generator; with N > 0 texts and the generator
\* unconfigured or failing it returns a sentence with "1 student review"
\* for N = 1 and "N student reviews" for N > 1.
C12_FallbackSummary ==
    fn = "summarize_reviews"
    => LET texts == Texts(arg.raw)
           N == Len(texts)
           down == ~anthropic_client \/ ~arg.out.ok
       IN  /\ N = 0 => /\ res.summary = <<"No reviews available to summarize.">>
                       /\ GenerationCalls(texts) = <<>>
           /\ (N = 1 /\ down)
              => /\ Contains(res.summary, <<"1", " student review">>)
                 /\ ~Contains(res.summary, <<" student review", "s">>)
           /\ (N > 1 /\ down)
              => Contains(res.summary, Str(N) \o <<" student review", "s">>)

\* The generator is configured and fails on two texts: "2 student reviews".
C12_Witness ==
    /\ fn = "summarize_reviews"
    /\ anthropic_client
    /\ arg.out = Failed
    /\ Len(arg.raw) = 2
    /\ Contains(res.summary, <<"2", " student review", "s">>)

-----------------------------------------------------------------------------
(* Claims about get_professor, checked under Spec.                         *)

\* C1: once a request for a name has returned a record, every later request
\* whose name has the same words returns that very record and calls no
\* upstream service.  prior is set when a request starts, to the record
\* already returned for its name.
C1_CacheIdempotence ==
    \A r \in Tasks :
        task[r].prior # <<>>
        => /\ task[r].pc = "done"
           /\ task[r].outcome = "record"
           /\ task[r].result = task[r].prior[1]
           /\ task[r].calls = <<>>

\* "a b" was resolved through the upstream services, then "A  b" was
\* answered with the same record and no call.
C1_Witness ==
    \E r1, r2 \in Tasks :
        /\ task[r1].pc = "done" /\ task[r1].name = <<"a", " ", "b">>
        /\ task[r1].outcome = "record" /\ task[r1].calls # <<>>
        /\ task[r2].pc = "done" /\ task[r2].name = <<"A", " ", " ", "b">>
        /\ task[r2].prior = <<task[r1].result>>
        /\ task[r2].result = task[r1].result
        /\ task[r2].calls = <<>>

\* C3: every request ends with a record, not-found or the client-input
\* error, whatever the upstream services answer.
C3_ThreeOutcomes ==
    \A r \in Tasks :
        task[r].pc = "done" => task[r].outcome \in {"record", "not_found", "client_error"}

InCall(r) == task[r].pc \in {"search", "fetch", "moderate", "summarize"}

\* C6: while a request is waiting on an upstream call, a request for a
\* different name can start.
C6_NoBlocking ==
    \A r1, r2 \in Tasks :
        (/\ InCall(r1)
         /\ task[r2].pc = "queued"
         /\ Words(task[r2].name) # <<>>
         /\ Words(task[r2].name) # Words(task[r1].name))
        => ENABLED Begin(r2)

Blank(name) == \A i \in 1..Len(name) : IsSpace(name[i])

\* C10: a request whose name is empty or all whitespace ends at once in
\* the client-input error: no record, no upstream call, the cache as it was.
C10_BlankNameRejected ==
    [][\A r \in Tasks :
          (task[r].pc = "queued" /\ Blank(task[r].name) /\ task'[r] # task[r])
          => /\ task'[r].pc = "done"
             /\ task'[r].outcome = "client_error"
             /\ task'[r].result = NoRecord
             /\ task'[r].calls = <<>>
             /\ _cache' = _cache]_vars

\* A whitespace-only name was rejected while the cache held a record.
C10_Witness ==
    \E r \in Tasks :
        /\ task[r].pc = "done" /\ task[r].name = <<" ">>
        /\ task[r].outcome = "client_error"
        /\ _cache # {}

\* The calls are one search, then one fetch, then moderation calls, then
\* at most one generation call, which is the last
InOrder(calls) ==
    /\ Len(calls) >= 1 => calls[1] = "search"
    /\ Len(calls) >= 2 => calls[2] = "fetch"
    /\ \A i \in 3..Len(calls) :
          /\ calls[i] \in {"moderate", "generate"}
          /\ calls[i] = "generate" => i = Len(calls)

Count(calls, c) == Cardinality({i \in 1..Len(calls) : calls[i] = c})

\* Nothing but the search is called without a match, and a request that
\* ends not-found has made the one search call
MatchFirst(r) ==
    /\ task[r].pc \in {"fetch", "moderate", "summarize"} => task[r].prof # NoCand
    /\ task[r].pc \in {"queued", "search"} => task[r].calls = <<>>
    /\ task[r].pc = "fetch" => task[r].calls = <<"search">>
    /\ task[r].pc = "moderate" => task[r].calls = <<"search", "fetch">>
    /\ task[r].outcome = "client_error" => task[r].calls = <<>>
    /\ task[r].outcome = "not_found" => task[r].calls = <<"search">>

\* C13 as stated: within a request the calls are in the order search,
\* fetch, one moderation call for each sanitized review, at most one
\* generation call, none repeated; nothing but the search is called without
\* a match, and a not-found request has made exactly the one search call.
C13_CallOrder ==
    \A r \in Tasks :
        /\ InOrder(task[r].calls)
        /\ MatchFirst(r)
        /\ task[r].pc = "summarize"
           => Count(task[r].calls, "moderate") = Len(task[r].raw_reviews)

\* C13 with the moderation calls counted as the code makes them: one for
\* each sanitized review when the client is configured, none when it is not.
C13_CallOrderConfigured ==
    \A r \in Tasks :
        /\ InOrder(task[r].calls)
        /\ MatchFirst(r)
        /\ task[r].pc = "summarize"
           => Count(task[r].calls, "moderate")
              = (IF anthropic_client THEN Len(task[r].raw_reviews) ELSE 0)

\* A request made all its calls: two reviews moderated, one summary.
C13_Witness ==
    \E r \in Tasks :
        /\ task[r].outcome = "record"
        /\ task[r].calls = <<"search", "fetch", "moderate", "moderate", "generate">>

\* C16: an entry of the cache is never replaced, refreshed or removed,
\* whatever requests follow and however they interleave: every step keeps
\* every item, so the record under a key is the first stored for it and the
\* set of keys only grows.  No key has two items.
C16_EntriesNeverChange ==
    [][/\ \A e \in _cache : e \in _cache'
       /\ \A e1, e2 \in _cache' : e1.key = e2.key => e1 = e2]_vars

\* "a b" and "b a" are both cached, and a request for "A  b" that came
\* when "a b" was cached was answered with the record still under that key.
C16_Witness ==
    /\ Cardinality(_cache) = 2
    /\ \E r \in Tasks :
          /\ task[r].pc = "done" /\ task[r].name = <<"A", " ", " ", "b">>
          /\ task[r].outcome = "record" /\ task[r].calls = <<>>
          /\ [key |-> <<"a", " ", "b">>, value |-> task[r].result] \in _cache

Ended(r) == task[r].pc # "done" /\ task'[r].pc = "done"

\* C17: the cache changes only in the last step of a request that missed
\* it and built a record, and then by the one item of that request's own
\* normalized key; a request that ends in an error or not-found, or is
\* served from the cache, leaves it as it was; the key of a not-found
\* request is not cached, and a request that does not find its key
\* goes to the search.
C17_CacheFrame ==
    [][/\ _cache' # _cache
          => \E r \in Tasks :
                /\ task[r].pc = "summarize" /\ Ended(r)
                /\ task'[r].outcome = "record"
                /\ task'[r].result # NoRecord
                /\ task[r].key = _cache_key(task[r].name)
                /\ ~\E e \in _cache : e.key = task[r].key
                /\ _cache' = _cache \cup {[key |-> task[r].key, value |-> task'[r].result]}
       /\ \A r \in Tasks :
             /\ (Ended(r) /\ task'[r].outcome # "record") => _cache' = _cache
             /\ (Ended(r) /\ task[r].pc = "queued") => _cache' = _cache
             /\ (Ended(r) /\ task'[r].outcome = "not_found")
                => ~\E e \in _cache' : e.key = task[r].key
             /\ (/\ task[r].pc = "queued" /\ task'[r] # task[r]
                 /\ ~Blank(task[r].name)
                 /\ ~\E e \in _cache : e.key = _cache_key(task[r].name))
                => task'[r].pc = "search"]_vars

\* A request for "a b" ended not-found, nothing was cached, and the next
\* request for that key is in the search call.
C17_Witness ==
    \E r1, r2 \in Tasks :
        /\ task[r1].pc = "done" /\ task[r1].outcome = "not_found"
        /\ task[r1].key = <<"a", " ", "b">>
        /\ task[r2].pc = "search" /\ task[r2].key = <<"a", " ", "b">>
        /\ _cache = {}

\* C18: a record is stored whatever the steps that built it went through,
\* a failed fetch, a failed moderation or a failed generation included, and
\* every later request for its key is answered at once with the stored
\* record: no call, the cache as it was.
C18_DegradedRecordServed ==
    [][\A r \in Tasks :
          /\ (task[r].pc = "summarize" /\ task'[r].outcome = "record")
             => [key |-> task[r].key, value |-> task'[r].result] \in _cache'
          /\ \A e \in _cache :
                (/\ task[r].pc = "queued" /\ task'[r] # task[r]
                 /\ e.key = _cache_key(task[r].name))
                => /\ task'[r].pc = "done"
                   /\ task'[r].outcome = "record"
                   /\ task'[r].result = e.value
                   /\ task'[r].calls = <<>>
                   /\ _cache' = _cache]_vars

\* The generator was called for "a b" and failed, the record has the
\* fallback sentence, and "A  b" was then answered with it and no call.
C18_Witness ==
    /\ anthropic_client
    /\ \E r1, r2 \in Tasks :
          /\ task[r1].pc = "done" /\ task[r1].name = <<"a", " ", "b">>
          /\ task[r1].outcome = "record"
          /\ task[r1].calls = <<"search", "fetch", "moderate", "generate">>
          /\ Contains(task[r1].result.summary, <<"1", " student review">>)
          /\ task[r2].pc = "done" /\ task[r2].name = <<"A", " ", " ", "b">>
          /\ task[r2].outcome = "record" /\ task[r2].calls = <<>>
          /\ task[r2].result = task[r1].result
          /\ [key |-> <<"a", " ", "b">>, value |-> task[r1].result] \in _cache

====
